---- MODULE Spec2Model ----
(***************************************************************************)
(* The model-building pass of M2-ISA-R (ArchitectureModelBuilder): the     *)
(* builder's name-keyed tables and one action per reduction handler.       *)
(* A handler call either succeeds and updates the tables, or raises; a     *)
(* raised exception propagates out of the pass, so no handler runs after   *)
(* it.  `last` records the call just made: handler, arguments, outcome.    *)
(***************************************************************************)
EXTENDS Integers, Sequences, FiniteSets, TLC

VARIABLES
    \* the builder's tables (self.__x), name -> object
    __constants, __address_spaces, __registers, __register_file,
    __register_alias, __memories, __memory_aliases, __instructions,
    __functions, __instruction_sets, __read_types, __fields,
    __current_instr_idx, __current_fn_idx,
    \* objects that are mutated in place or replaced in a table:
    \* Constant, Memory, Instruction and Function objects by identity
    constant_objs, memory_objs, instruction_objs, function_objs,
    \* results of reductions not yet handed to the enclosing rule
    reduced,
    \* the call just made
    last

constTables == <<__constants, constant_objs>>
declTables == <<__address_spaces, __registers, __register_file, __register_alias,
                __memories, __memory_aliases, memory_objs>>
instrTables == <<__instructions, instruction_objs, __fields, __current_instr_idx>>
fnTables == <<__functions, function_objs, __current_fn_idx>>
setTables == <<__instruction_sets, __read_types>>

vars == <<constTables, declTables, instrTables, fnTables, setTables, reduced, last>>

(* ---------------------------- input domains ---------------------------- *)

\* names used in the description; every namespace draws from the same set
Names == {"A", "B"}

\* names an alias may give as its actual register: the declarable names and
\* one that is never declared
ActualArgs == Names \cup {"C"}

\* names of constants
CNames == {"A"}

\* literal integers appearing as sizes, lengths and values
Lits == {16, 32}

\* attribute sets handed over by const_attributes, reg_attributes and
\* space_attributes
ConstAttrSets == {{"is_reg_width"}}
RegAttrSets == {{"is_pc"}}
FileAttrSets == {{}}
SpaceAttrSets == {{"is_main_mem"}}

\* bound on the number of address spaces, registers, register files and
\* aliases declared in one pass
MaxDecls == 3

\* bound on the number of registers and aliases that carry a default value
MaxDefaults == 1

\* bounds on the elements of one encoding, the parameters of one function,
\* and the instructions and functions reduced in one pass
MaxEncLen == 2
MaxParams == 1
MaxInstrs == 2
MaxFns == 2

\* bound on the objects built or pending in one pass when every rule takes part
MaxObjects == 3

(* ------------------------------ helpers -------------------------------- *)

EmptyFn == [x \in {} |-> 0]

Put(t, k, v) == [x \in (DOMAIN t) \cup {k} |-> IF x = k THEN v ELSE t[x]]

\* an argument that is a literal integer / a name / absent (None)
Lit(i) == [t |-> "int", v |-> i, n |-> ""]
Nm(n) == [t |-> "name", v |-> 0, n |-> n]
None == [t |-> "none", v |-> 0, n |-> ""]

\* a stored value: an integer, or a reference to a Constant object
IntVal(i) == [t |-> "int", v |-> i]
ConstRef(id) == [t |-> "const", v |-> id]
NoneVal == [t |-> "none", v |-> 0]

SizeArgs == {Lit(32)} \cup {Nm(n) : n \in CNames}
PowerArgs == {None, Lit(1)}

\* get_constant_or_val: an int is returned as is, a name is looked up in
\* the constant table and yields the Constant object itself
Resolvable(a) == a.t = "int" \/ (a.t = "name" /\ a.n \in DOMAIN __constants)
get_constant_or_val(a) ==
    IF a.t = "int" THEN IntVal(a.v) ELSE ConstRef(__constants[a.n])

\* index arguments of register_alias: a single index or a RangeSpec
IdxInt(i) == [t |-> "int", hi |-> i, lo |-> i]
IdxRange(h, l) == [t |-> "range", hi |-> h, lo |-> l]
IndexArgs == {IdxRange(15, 0)}

\* RangeSpec(upper, lower[, power]) as built by the handlers
RangeSpec(upper, lower, power) == [upper |-> upper, lower |-> lower, power |-> power]
RangeArgs == {RangeSpec(IntVal(31), IntVal(0), NoneVal)}

(* ------------------------- outcome of a call --------------------------- *)

Running == last.res \in {"ok", "Discard"}

\* a call that returned `ret` (or raised Discard) after printing `out`
Return(op, args, res, ret, out) ==
    [op |-> op, args |-> args, res |-> res, ret |-> ret, out |-> out]
Call(op, args, res) == Return(op, args, res, NoneVal, <<>>)
\* an exception leaving the handler: the pass is aborted
Raise(op, args, exc) == Return(op, args, exc, NoneVal, <<>>)
\* an exception raised before the handler has changed anything
Abort(op, args, exc) ==
    /\ last' = Raise(op, args, exc)
    /\ UNCHANGED <<constTables, declTables, instrTables, fnTables, setTables,
                   reduced>>

NumDecls == Cardinality(DOMAIN __address_spaces) + Cardinality(DOMAIN __registers)
            + Cardinality(DOMAIN __register_file) + Cardinality(DOMAIN __register_alias)
DeclRoom == NumDecls < MaxDecls

\* a reference to a Register, RegisterFile or RegisterAlias object
EntityRef(kind, name) == [k |-> kind, n |-> name]

\* a fresh Memory node; a node is identified by the declaration that built it
Node(kind, name) == [k |-> kind, n |-> name]
Memory(name, range, size, attributes) ==
    [name |-> name, range |-> range, size |-> size, attributes |-> attributes,
     children |-> <<>>]

(* ------------------------------ constants ------------------------------ *)

\* the exception a handler raises before it changes anything, or "ok"
constant_decl_raises(name) ==
    IF name \in DOMAIN __constants THEN "ValueError" ELSE "ok"

\* variant of constant_decl that overwrites the value of a known constant
\* instead of rejecting the declaration
constant_decl_updating(name, default_value) ==
    LET args == [name |-> name, value |-> default_value] IN
    /\ Running
    /\ IF name \in DOMAIN __constants
       THEN /\ constant_objs' = [constant_objs EXCEPT ![__constants[name]].value =
                                                          default_value + 1]
            /\ UNCHANGED __constants
       ELSE /\ constant_objs' = Append(constant_objs, [name |-> name, value |-> default_value,
                                     attributes |-> {}])
            /\ __constants' = Put(__constants, name, Len(constant_objs) + 1)
    /\ reduced' = [reduced EXCEPT !.constants = @ \cup {name}]
    /\ last' = Call("constant_decl", args, "ok")
    /\ UNCHANGED <<declTables, instrTables, fnTables, setTables>>

constant_decl(name, default_value) ==
    LET args == [name |-> name, value |-> default_value]
        exc == constant_decl_raises(name)
    IN
    /\ Running
    /\ IF exc # "ok"
       THEN Abort("constant_decl", args, exc)
       ELSE /\ constant_objs' = Append(constant_objs, [name |-> name, value |-> default_value,
                                     attributes |-> {}])
            /\ __constants' = Put(__constants, name, Len(constant_objs) + 1)
            /\ reduced' = [reduced EXCEPT !.constants = @ \cup {name}]
            /\ last' = Call("constant_decl", args, "ok")
            /\ UNCHANGED <<declTables, instrTables, fnTables, setTables>>

\* variant of constant_def that binds the name to a new Constant every time
constant_def_rebinding(name, value, attributes) ==
    LET args == [name |-> name, value |-> value, attributes |-> attributes] IN
    /\ Running
    /\ constant_objs' = Append(constant_objs, [name |-> name, value |-> value,
                                               attributes |-> attributes])
    /\ __constants' = Put(__constants, name, Len(constant_objs) + 1)
    /\ reduced' = [reduced EXCEPT !.constants = @ \cup {name}]
    /\ last' = Call("constant_def", args, "ok")
    /\ UNCHANGED <<declTables, instrTables, fnTables, setTables>>

constant_def(name, value, attributes) ==
    LET args == [name |-> name, value |-> value, attributes |-> attributes] IN
    /\ Running
    /\ IF name \in DOMAIN __constants
       THEN /\ constant_objs' = [constant_objs EXCEPT ![__constants[name]].value = value,
                                    ![__constants[name]].attributes = attributes]
            /\ UNCHANGED __constants
       ELSE /\ constant_objs' = Append(constant_objs, [name |-> name, value |-> value,
                                     attributes |-> attributes])
            /\ __constants' = Put(__constants, name, Len(constant_objs) + 1)
    /\ reduced' = [reduced EXCEPT !.constants = @ \cup {name}]
    /\ last' = Call("constant_def", args, "ok")
    /\ UNCHANGED <<declTables, instrTables, fnTables, setTables>>

(* ------------------- address spaces, registers, files ------------------ *)

address_space_raises(name, size, length_base, length_power) ==
    IF name \in DOMAIN __address_spaces THEN "ValueError"
    ELSE IF ~(Resolvable(size) /\ Resolvable(length_base)
              /\ (length_power.t = "none" \/ Resolvable(length_power)))
    THEN "KeyError"
    ELSE "ok"

address_space(name, size, length_base, length_power, attribs) ==
    LET args == [name |-> name, size |-> size, length_base |-> length_base,
                 length_power |-> length_power, attribs |-> attribs]
        rsize == get_constant_or_val(size)
        rbase == get_constant_or_val(length_base)
        rpower == IF length_power.t # "none" THEN get_constant_or_val(length_power)
                  ELSE IntVal(1)
        exc == address_space_raises(name, size, length_base, length_power)
    IN
    /\ Running
    /\ IF exc # "ok"
       THEN Abort("address_space", args, exc)
       ELSE /\ DeclRoom
            /\ __address_spaces' = Put(__address_spaces, name,
                   [name |-> name, length_base |-> rbase, length_power |-> rpower,
                    size |-> rsize, attributes |-> attribs])
            /\ memory_objs' = Put(memory_objs, Node("address_space", name),
                   Memory(name, RangeSpec(rbase, IntVal(0), rpower), rsize, attribs))
            /\ __memories' = Put(__memories, name, Node("address_space", name))
            /\ reduced' = [reduced EXCEPT !.address_spaces = @ \cup {name}]
            /\ last' = Call("address_space", args, "ok")
            /\ UNCHANGED <<constTables, instrTables, fnTables, setTables, __registers, __register_file, __register_alias,
                           __memory_aliases>>

\* variant of register_raises without the duplicate check
register_raises_unchecked(name, size) ==
    IF ~Resolvable(size) THEN "KeyError" ELSE "ok"

register_raises(name, size) ==
    IF name \in DOMAIN __registers THEN "ValueError"
    ELSE IF ~Resolvable(size) THEN "KeyError"
    ELSE "ok"

register(name, size, attributes) ==
    LET args == [name |-> name, size |-> size, attributes |-> attributes]
        rsize == get_constant_or_val(size)
        exc == register_raises(name, size)
    IN
    /\ Running
    /\ IF exc # "ok"
       THEN Abort("register", args, exc)
       ELSE /\ DeclRoom
            /\ __registers' = Put(__registers, name,
                   [name |-> name, attributes |-> attributes, initval |-> NoneVal,
                    size |-> rsize])
            /\ memory_objs' = Put(memory_objs, Node("register", name),
                   Memory(name, RangeSpec(IntVal(0), IntVal(0), NoneVal), rsize,
                          attributes))
            /\ __memories' = Put(__memories, name, Node("register", name))
            /\ reduced' = [reduced EXCEPT !.registers = @ \cup {EntityRef("register", name)}]
            /\ last' = Call("register", args, "ok")
            /\ UNCHANGED <<constTables, instrTables, fnTables, setTables, __address_spaces, __register_file,
                           __register_alias, __memory_aliases>>

register_file_raises(name, size) ==
    IF name \in DOMAIN __register_file THEN "ValueError"
    ELSE IF ~Resolvable(size) THEN "KeyError"
    ELSE "ok"

register_file(range, name, size, attributes) ==
    LET args == [range |-> range, name |-> name, size |-> size,
                 attributes |-> attributes]
        rsize == get_constant_or_val(size)
        exc == register_file_raises(name, size)
    IN
    /\ Running
    /\ IF exc # "ok"
       THEN Abort("register_file", args, exc)
       ELSE /\ DeclRoom
            /\ __register_file' = Put(__register_file, name,
                   [name |-> name, range |-> range, attributes |-> attributes,
                    size |-> rsize])
            /\ memory_objs' = Put(memory_objs, Node("register_file", name),
                   Memory(name, range, rsize, attributes))
            /\ __memories' = Put(__memories, name, Node("register_file", name))
            /\ reduced' = [reduced EXCEPT !.registers = @ \cup {EntityRef("register_file", name)}]
            /\ last' = Call("register_file", args, "ok")
            /\ UNCHANGED <<constTables, instrTables, fnTables, setTables, __address_spaces, __registers,
                           __register_alias, __memory_aliases>>

(* --------------------------- register aliases -------------------------- *)

\* d.get(k): the entry, or None
Has(t, k) == k \in DOMAIN t

\* variant of ActualReg that probes the plain registers before the register files
ActualReg_registers_first(actual) ==
    IF Has(__registers, actual) THEN EntityRef("register", actual)
    ELSE IF Has(__register_file, actual) THEN EntityRef("register_file", actual)
    ELSE IF Has(__register_alias, actual) THEN EntityRef("register_alias", actual)
    ELSE EntityRef("none", actual)

\* self.__register_file.get(actual) or self.__registers.get(actual)
\*   or self.__register_alias.get(actual): a reference to the entity found
ActualReg(actual) ==
    IF Has(__register_file, actual) THEN EntityRef("register_file", actual)
    ELSE IF Has(__registers, actual) THEN EntityRef("register", actual)
    ELSE IF Has(__register_alias, actual) THEN EntityRef("register_alias", actual)
    ELSE EntityRef("none", actual)

\* variant of ParentMem that looks the name up among the alias views only
ParentMem_aliases_only(actual) ==
    IF Has(__memory_aliases, actual) THEN __memory_aliases[actual]
    ELSE Node("none", actual)

\* self.__memories.get(actual) or self.__memory_aliases.get(actual)
ParentMem(actual) ==
    IF Has(__memories, actual) THEN __memories[actual]
    ELSE IF Has(__memory_aliases, actual) THEN __memory_aliases[actual]
    ELSE Node("none", actual)

register_alias_raises(name, size, actual) ==
    IF name \in DOMAIN __register_alias THEN "ValueError"
    ELSE IF ActualReg(actual).k = "none" THEN "AssertionError"
    ELSE IF ~Resolvable(size) THEN "KeyError"
    ELSE "ok"

\* variant of register_alias that registers the alias view without appending
\* it to the children of its parent view
register_alias_unattached(name, size, actual, index, attributes) ==
    LET args == [name |-> name, size |-> size, actual |-> actual,
                 index |-> index, attributes |-> attributes]
        actual_reg == ActualReg(actual)
        rsize == get_constant_or_val(size)
        r == [name |-> name, actual |-> actual_reg, index |-> index,
              attributes |-> attributes, initval |-> NoneVal, size |-> rsize]
        m == Node("register_alias", name)
        range == RangeSpec(IntVal(index.hi), IntVal(index.lo), NoneVal)
        exc == register_alias_raises(name, size, actual)
    IN
    /\ Running
    /\ IF exc # "ok"
       THEN Abort("register_alias", args, exc)
       ELSE /\ DeclRoom
            /\ __register_alias' = Put(__register_alias, name, r)
            /\ memory_objs' = Put(memory_objs, m, Memory(name, range, rsize, attributes))
            /\ __memory_aliases' = Put(__memory_aliases, name, m)
            /\ reduced' = [reduced EXCEPT !.registers = @ \cup {EntityRef("register_alias", name)}]
            /\ last' = Call("register_alias", args, "ok")
            /\ UNCHANGED <<constTables, instrTables, fnTables, setTables, __address_spaces, __registers,
                           __register_file, __memories>>

register_alias(name, size, actual, index, attributes) ==
    LET args == [name |-> name, size |-> size, actual |-> actual,
                 index |-> index, attributes |-> attributes]
        actual_reg == ActualReg(actual)
        rsize == get_constant_or_val(size)
        r == [name |-> name, actual |-> actual_reg, index |-> index,
              attributes |-> attributes, initval |-> NoneVal, size |-> rsize]
        parent_mem == ParentMem(actual)
        m == Node("register_alias", name)
        range == RangeSpec(IntVal(index.hi), IntVal(index.lo), NoneVal)
        exc == register_alias_raises(name, size, actual)
    IN
    /\ Running
    /\ IF exc # "ok"
       THEN Abort("register_alias", args, exc)
       ELSE IF parent_mem.k = "none"
       THEN /\ __register_alias' = Put(__register_alias, name, r)
            /\ last' = Raise("register_alias", args, "AssertionError")
            /\ UNCHANGED <<constTables, instrTables, fnTables, setTables, reduced, __address_spaces, __registers,
                           __register_file, __memories, __memory_aliases,
                           memory_objs>>
       ELSE /\ DeclRoom
            /\ __register_alias' = Put(__register_alias, name, r)
            /\ memory_objs' =
                  Put([memory_objs EXCEPT ![parent_mem].children = Append(@, m)],
                      m, Memory(name, range, rsize, attributes))
            /\ __memory_aliases' = Put(__memory_aliases, name, m)
            /\ reduced' = [reduced EXCEPT !.registers = @ \cup {EntityRef("register_alias", name)}]
            /\ last' = Call("register_alias", args, "ok")
            /\ UNCHANGED <<constTables, instrTables, fnTables, setTables, __address_spaces, __registers,
                           __register_file, __memories>>

(* -------------------------- register defaults -------------------------- *)

ValueArgs == {Lit(16)}

WithDefault(t) == {n \in DOMAIN t : t[n].initval # NoneVal}
NumDefaults == Cardinality(WithDefault(__registers))
               + Cardinality(WithDefault(__register_alias))
\* the target already carries a default, or there is room for one more
DefaultRoom(name) ==
    \/ NumDefaults < MaxDefaults
    \/ IF Has(__register_alias, name)
       THEN name \in WithDefault(__register_alias)
       ELSE name \in WithDefault(__registers)

\* variant of register_default_raises that also accepts a register file as target
register_default_raises_any(name, value_or_ref) ==
    IF ~Has(__register_alias, name) /\ ~Has(__registers, name)
       /\ ~Has(__register_file, name) THEN "AssertionError"
    ELSE IF ~Resolvable(value_or_ref) THEN "KeyError"
    ELSE "ok"

register_default_raises(name, value_or_ref) ==
    IF ~Has(__register_alias, name) /\ ~Has(__registers, name) THEN "AssertionError"
    ELSE IF ~Resolvable(value_or_ref) THEN "KeyError"
    ELSE "ok"

\* variant of register_default that probes the plain registers before the aliases
register_default_registers_first(name, value_or_ref) ==
    LET args == [name |-> name, value |-> value_or_ref]
        val == get_constant_or_val(value_or_ref)
        exc == register_default_raises(name, value_or_ref)
    IN
    /\ Running
    /\ IF exc # "ok"
       THEN Abort("register_default", args, exc)
       ELSE /\ DefaultRoom(name)
            /\ IF Has(__registers, name)
               THEN /\ __registers' = [__registers EXCEPT ![name].initval = val]
                    /\ UNCHANGED __register_alias
               ELSE /\ __register_alias' = [__register_alias EXCEPT ![name].initval = val]
                    /\ UNCHANGED __registers
            /\ last' = Call("register_default", args, "Discard")
            /\ UNCHANGED <<constTables, instrTables, fnTables, setTables, reduced, __address_spaces, __register_file,
                           __memories, __memory_aliases, memory_objs>>

register_default(name, value_or_ref) ==
    LET args == [name |-> name, value |-> value_or_ref]
        val == get_constant_or_val(value_or_ref)
        exc == register_default_raises(name, value_or_ref)
    IN
    /\ Running
    /\ IF exc # "ok"
       THEN Abort("register_default", args, exc)
       ELSE /\ DefaultRoom(name)
            /\ IF Has(__register_alias, name)
               THEN /\ __register_alias' = [__register_alias EXCEPT ![name].initval = val]
                    /\ UNCHANGED __registers
               ELSE /\ __registers' = [__registers EXCEPT ![name].initval = val]
                    /\ UNCHANGED __register_alias
            /\ last' = Call("register_default", args, "Discard")
            /\ UNCHANGED <<constTables, instrTables, fnTables, setTables, reduced, __address_spaces, __register_file,
                           __memories, __memory_aliases, memory_objs>>

(* ----------------------- bit fields and encodings ---------------------- *)

\* DataType members; NoType is an absent (None) data type argument
NoType == "None"

BitVal(length, value) == [t |-> "val", length |-> length, value |-> value]
BitField(name, range, data_type) ==
    [t |-> "field", name |-> name, range |-> range, data_type |-> data_type]

\* int(digits, 2) of a sequence of the characters "0" and "1"
RECURSIVE BinValue(_)
BinValue(digits) ==
    IF digits = <<>> THEN 0
    ELSE 2 * BinValue(SubSeq(digits, 1, Len(digits) - 1))
         + (IF digits[Len(digits)] = "1" THEN 1 ELSE 0)

\* an encoding element is reduced only for an instruction that is still to
\* come, and an encoding has at most MaxEncLen elements
EncRoom == Len(instruction_objs) < MaxInstrs /\ Len(reduced.enc) < MaxEncLen

\* BVAL: the token is the character "b" followed by the binary digits;
\* len(num) - 1 is the number of digits, int('0' + num, 2) their value
BVAL(num) ==
    LET ret == BitVal(Len(num) - 1, BinValue(Tail(num))) IN
    /\ Running
    /\ EncRoom
    /\ reduced' = [reduced EXCEPT !.enc = Append(@, ret)]
    /\ last' = Return("BVAL", [num |-> num], "ok", ret, <<>>)
    /\ UNCHANGED <<constTables, declTables, instrTables, fnTables, setTables>>

\* self.__fields[idx][name]: a defaultdict of defaultdicts of lists
FieldList(idx, name) ==
    IF idx \in DOMAIN __fields /\ name \in DOMAIN __fields[idx]
    THEN __fields[idx][name] ELSE <<>>

bit_field(name, range, data_type) ==
    LET args == [name |-> name, range |-> range, data_type |-> data_type]
        b == BitField(name, range, IF data_type = NoType THEN "U" ELSE data_type)
        idx == __current_instr_idx
        group == IF idx \in DOMAIN __fields THEN __fields[idx] ELSE EmptyFn
    IN
    /\ Running
    /\ EncRoom
    /\ __fields' = Put(__fields, idx, Put(group, name, Append(FieldList(idx, name), b)))
    /\ reduced' = [reduced EXCEPT !.enc = Append(@, b)]
    /\ last' = Return("bit_field", args, "ok", b, <<>>)
    /\ UNCHANGED <<constTables, declTables, fnTables, setTables, __instructions,
                   instruction_objs, __current_instr_idx>>

(* ----------------------------- instructions ---------------------------- *)

Pow2(n) == 2 ^ n

\* width of an encoding element: a BitVal's length, a BitField's range length
ElemBits(e) ==
    IF e.t = "val" THEN e.length ELSE e.range.upper.v - e.range.lower.v + 1

RECURSIVE EncBits(_)
EncBits(enc) == IF enc = <<>> THEN 0 ELSE ElemBits(Head(enc)) + EncBits(Tail(enc))

\* the fixed bits of an encoding, the last element at bit 0
RECURSIVE EncCode(_)
EncCode(enc) ==
    IF enc = <<>> THEN 0
    ELSE (IF Head(enc).t = "val" THEN Head(enc).value * Pow2(EncBits(Tail(enc)))
          ELSE 0) + EncCode(Tail(enc))

\* ones at the positions of the fixed bits, zeros at those of the bit fields
RECURSIVE EncMask(_)
EncMask(enc) ==
    IF enc = <<>> THEN 0
    ELSE (IF Head(enc).t = "val"
          THEN (Pow2(Head(enc).length) - 1) * Pow2(EncBits(Tail(enc)))
          ELSE 0) + EncMask(Tail(enc))

Instruction(name, attributes, encoding, disass, operation) ==
    [name |-> name, attributes |-> attributes, encoding |-> encoding,
     disass |-> disass, operation |-> operation, code |-> EncCode(encoding),
     mask |-> EncMask(encoding), ext_name |-> NoType]

\* variant of InstrId that keys an instruction by its code alone
InstrId_by_code(i) == <<i.code, 0>>

\* instr_id = (i.code, i.mask), the key of the instruction table
InstrId(i) == <<i.code, i.mask>>

\* variant of instruction that advances the instruction index only when the
\* key is new
instruction_idx_on_new_key(name, attributes, encoding, disass, operation) ==
    LET args == [name |-> name, attributes |-> attributes, encoding |-> encoding,
                 disass |-> disass, operation |-> operation]
        i == Instruction(name, attributes, encoding, disass, operation)
        id == Len(instruction_objs) + 1
        instr_id == InstrId(i)
        out == IF instr_id \in DOMAIN __instructions
               THEN << <<"WARN: overwriting instruction",
                         instruction_objs[__instructions[instr_id]].name, name>> >>
               ELSE <<>>
    IN
    /\ Running
    /\ Len(encoding) > 0
    /\ Len(instruction_objs) < MaxInstrs
    /\ instruction_objs' = Append(instruction_objs, i)
    /\ __instructions' = Put(__instructions, instr_id, id)
    /\ __current_instr_idx' = IF instr_id \in DOMAIN __instructions
                              THEN __current_instr_idx
                              ELSE __current_instr_idx + 1
    /\ reduced' = [reduced EXCEPT !.enc = <<>>, !.instructions = Append(@, id)]
    /\ last' = Return("instruction", args, "ok", id, out)
    /\ UNCHANGED <<constTables, declTables, fnTables, setTables, __fields>>

instruction(name, attributes, encoding, disass, operation) ==
    LET args == [name |-> name, attributes |-> attributes, encoding |-> encoding,
                 disass |-> disass, operation |-> operation]
        i == Instruction(name, attributes, encoding, disass, operation)
        id == Len(instruction_objs) + 1
        instr_id == InstrId(i)
        out == IF instr_id \in DOMAIN __instructions
               THEN << <<"WARN: overwriting instruction",
                         instruction_objs[__instructions[instr_id]].name, name>> >>
               ELSE <<>>
    IN
    /\ Running
    /\ Len(encoding) > 0
    /\ Len(instruction_objs) < MaxInstrs
    /\ instruction_objs' = Append(instruction_objs, i)
    /\ __instructions' = Put(__instructions, instr_id, id)
    /\ __current_instr_idx' = __current_instr_idx + 1
    /\ reduced' = [reduced EXCEPT !.enc = <<>>, !.instructions = Append(@, id)]
    /\ last' = Return("instruction", args, "ok", id, out)
    /\ UNCHANGED <<constTables, declTables, fnTables, setTables, __fields>>

(* ------------------------------ functions ------------------------------ *)

FnParam(name, size, data_type) ==
    [name |-> name, size |-> size, data_type |-> data_type]

fn_arg_def(name, data_type, size) ==
    LET args == [name |-> name, data_type |-> data_type, size |-> size]
        ret == FnParam(name, get_constant_or_val(size),
                       IF data_type = NoType THEN "U" ELSE data_type)
    IN
    /\ Running
    /\ IF ~Resolvable(size)
       THEN Abort("fn_arg_def", args, "KeyError")
       ELSE /\ Len(function_objs) < MaxFns
            /\ Len(reduced.params) < MaxParams
            /\ reduced' = [reduced EXCEPT !.params = Append(@, ret)]
            /\ last' = Return("fn_arg_def", args, "ok", ret, <<>>)
            /\ UNCHANGED <<constTables, declTables, instrTables, fnTables, setTables>>

\* Python truth value of a return_len argument: None, 0 and "" are false
Truthy(a) == (a.t = "int" /\ a.v # 0) \/ (a.t = "name" /\ a.n # "")

\* if not data_type and not return_len: NONE; elif not data_type: U
ReturnType(data_type, return_len) ==
    IF data_type = NoType /\ ~Truthy(return_len) THEN "NONE"
    ELSE IF data_type = NoType THEN "U"
    ELSE data_type

\* self.get_constant_or_val(return_len) if return_len else None
ReturnLen(return_len) ==
    IF Truthy(return_len) THEN get_constant_or_val(return_len) ELSE NoneVal

Function(name, return_len, data_type, fn_args, operation) ==
    [name |-> name, size |-> return_len, data_type |-> data_type,
     args |-> fn_args, operation |-> operation, ext_name |-> NoType]

function_def(return_len, name, fn_args, data_type, attributes, operation) ==
    LET args == [return_len |-> return_len, name |-> name, fn_args |-> fn_args,
                 data_type |-> data_type, attributes |-> attributes,
                 operation |-> operation]
        dt == ReturnType(data_type, return_len)
        rlen == ReturnLen(return_len)
        id == Len(function_objs) + 1
    IN
    /\ Running
    /\ IF Truthy(return_len) /\ ~Resolvable(return_len)
       THEN Abort("function_def", args, "KeyError")
       ELSE /\ Len(function_objs) < MaxFns
            /\ function_objs' = Append(function_objs,
                                       Function(name, rlen, dt, fn_args, operation))
            /\ __functions' = Put(__functions, name, id)
            /\ __current_fn_idx' = __current_fn_idx + 1
            /\ reduced' = [reduced EXCEPT !.params = <<>>, !.functions = Append(@, id)]
            /\ last' = Return("function_def", args, "ok", id, <<>>)
            /\ UNCHANGED <<constTables, declTables, instrTables, setTables>>

(* --------------------------- instruction sets -------------------------- *)

\* nothing reduced is left for an enclosing rule once a set or core is closed
NothingReduced ==
    [enc |-> <<>>, params |-> <<>>, constants |-> {}, address_spaces |-> {},
     registers |-> {}, functions |-> <<>>, instructions |-> <<>>]

\* a set or core is closed after its instructions and functions: no
\* encoding and no parameter list is left without its instruction or function
ScopeComplete == reduced.enc = <<>> /\ reduced.params = <<>>

Range(seq) == {seq[k] : k \in DOMAIN seq}

\* {obj.name: obj for obj in objs}: the last object of a name wins
RECURSIVE ByName(_, _)
ByName(ids, objs) ==
    IF ids = <<>> THEN EmptyFn
    ELSE LET front == SubSeq(ids, 1, Len(ids) - 1)
             id == ids[Len(ids)]
         IN  Put(ByName(front, objs), objs[id].name, id)

InstructionSet(name, extension, cs, spaces, regs, instructions_dict) ==
    [name |-> name, extension |-> extension, constants |-> cs,
     address_spaces |-> spaces, registers |-> regs,
     instructions |-> instructions_dict]

\* variant of instruction_set that tags the instructions but not the functions
instruction_set_functions_untagged(name, extension, cs, spaces, regs, fns, instrs) ==
    LET args == [name |-> name, extension |-> extension, constants |-> cs,
                 address_spaces |-> spaces, registers |-> regs,
                 functions |-> fns, instructions |-> instrs]
        Dict(ns) == IF ns = {} THEN NoneVal ELSE ns
        instructions_dict == IF instrs = <<>> THEN NoneVal
                             ELSE ByName(instrs, instruction_objs)
        i_s == InstructionSet(name, extension, Dict(cs), Dict(spaces),
                              Dict({r.n : r \in regs}), instructions_dict)
    IN
    /\ Running
    /\ ScopeComplete
    /\ instruction_objs' = [k \in DOMAIN instruction_objs |->
                              IF k \in Range(instrs)
                              THEN [instruction_objs[k] EXCEPT !.ext_name = name]
                              ELSE instruction_objs[k]]
    /\ __instruction_sets' = Put(__instruction_sets, name, i_s)
    /\ __read_types' = IF name \in Range(__read_types) THEN __read_types
                       ELSE Append(__read_types, name)
    /\ reduced' = NothingReduced
    /\ last' = Return("instruction_set", args, "Discard", NoneVal, <<>>)
    /\ UNCHANGED <<constTables, declTables, __instructions, __fields,
                   __current_instr_idx, fnTables>>

instruction_set(name, extension, cs, spaces, regs, fns, instrs) ==
    LET args == [name |-> name, extension |-> extension, constants |-> cs,
                 address_spaces |-> spaces, registers |-> regs,
                 functions |-> fns, instructions |-> instrs]
        \* a dict keyed by name, or None when the list is empty or absent
        Dict(ns) == IF ns = {} THEN NoneVal ELSE ns
        instructions_dict == IF instrs = <<>> THEN NoneVal
                             ELSE ByName(instrs, instruction_objs)
        i_s == InstructionSet(name, extension, Dict(cs), Dict(spaces),
                              Dict({r.n : r \in regs}), instructions_dict)
    IN
    /\ Running
    /\ ScopeComplete
    /\ instruction_objs' = [k \in DOMAIN instruction_objs |->
                              IF k \in Range(instrs)
                              THEN [instruction_objs[k] EXCEPT !.ext_name = name]
                              ELSE instruction_objs[k]]
    /\ function_objs' = [k \in DOMAIN function_objs |->
                           IF k \in Range(fns)
                           THEN [function_objs[k] EXCEPT !.ext_name = name]
                           ELSE function_objs[k]]
    /\ __instruction_sets' = Put(__instruction_sets, name, i_s)
    /\ __read_types' = IF name \in Range(__read_types) THEN __read_types
                       ELSE Append(__read_types, name)
    /\ reduced' = NothingReduced
    /\ last' = Return("instruction_set", args, "Discard", NoneVal, <<>>)
    /\ UNCHANGED <<constTables, declTables, __instructions, __fields,
                   __current_instr_idx, __functions, __current_fn_idx>>

(* ------------------------------- core_def ------------------------------ *)

\* the builder table a name denotes
Table(t) ==
    CASE t = "__constants" -> __constants
      [] t = "__address_spaces" -> __address_spaces
      [] t = "__register_file" -> __register_file
      [] t = "__registers" -> __registers
      [] t = "__register_alias" -> __register_alias
      [] t = "__memories" -> __memories
      [] t = "__memory_aliases" -> __memory_aliases
      [] t = "__functions" -> __functions
      [] t = "__instructions" -> __instructions

\* CoreDef keeps the list of set names it is given and the table objects
\* themselves, not copies of them
CoreDef(name, contributing_types, template, cs, sp, rf, rg, ra, mm, ma, fn, ins) ==
    [name |-> name, contributing_types |-> contributing_types,
     template |-> template, constants |-> cs, address_spaces |-> sp,
     register_files |-> rf, registers |-> rg, register_aliases |-> ra,
     memories |-> mm, memory_aliases |-> ma, functions |-> fn,
     instructions |-> ins]

\* {**a, **b}: b's entries win
Merge(a, b) == [x \in (DOMAIN a) \cup (DOMAIN b) |-> IF x \in DOMAIN b THEN b[x] ELSE a[x]]

\* variant of core_def that hands the register and register-file tables over
\* in each other's place
core_def_swapped(name, template) ==
    LET args == [name |-> name, template |-> template]
        c == CoreDef(name, __read_types, template, "__constants",
                     "__address_spaces", "__registers", "__register_file",
                     "__register_alias", "__memories", "__memory_aliases",
                     "__functions", "__instructions")
    IN
    /\ Running
    /\ ScopeComplete
    /\ reduced' = NothingReduced
    /\ last' = Return("core_def", args, "ok", c, <<>>)
    /\ UNCHANGED <<constTables, declTables, instrTables, fnTables, setTables>>

core_def(name, template) ==
    LET args == [name |-> name, template |-> template]
        \* a local that is computed and not used again
        merged_registers == Merge(Merge(__register_file, __registers),
                                  __register_alias)
        c == CoreDef(name, __read_types, template, "__constants",
                     "__address_spaces", "__register_file", "__registers",
                     "__register_alias", "__memories", "__memory_aliases",
                     "__functions", "__instructions")
    IN
    /\ Running
    /\ ScopeComplete
    /\ reduced' = NothingReduced
    /\ last' = Return("core_def", args, "ok", c, <<>>)
    /\ UNCHANGED <<constTables, declTables, instrTables, fnTables, setTables>>

(* ---------------------------- specification ---------------------------- *)

Init ==
    /\ __constants = EmptyFn
    /\ __address_spaces = EmptyFn
    /\ __registers = EmptyFn
    /\ __register_file = EmptyFn
    /\ __register_alias = EmptyFn
    /\ __instructions = EmptyFn
    /\ __functions = EmptyFn
    /\ __instruction_sets = EmptyFn
    /\ __read_types = <<>>
    /\ __memories = EmptyFn
    /\ __memory_aliases = EmptyFn
    /\ __fields = EmptyFn
    /\ __current_instr_idx = 0
    /\ __current_fn_idx = 0
    /\ constant_objs = <<>>
    /\ memory_objs = EmptyFn
    /\ instruction_objs = <<>>
    /\ function_objs = <<>>
    /\ reduced = NothingReduced
    /\ last = Call("__init__", EmptyFn, "ok")

\* the declaration rules: constants, address spaces, registers, register
\* files, aliases and register defaults
NextDecl ==
    \/ \E n \in CNames : constant_decl(n, 32)
    \/ \E n \in CNames, a \in ConstAttrSets : constant_def(n, 16, a)
    \/ \E n \in Names, b \in SizeArgs, p \in PowerArgs, a \in SpaceAttrSets :
          address_space(n, Lit(8), b, p, a)
    \/ \E n \in Names, s \in SizeArgs, a \in RegAttrSets : register(n, s, a)
    \/ \E r \in RangeArgs, n \in Names, s \in SizeArgs, a \in FileAttrSets :
          register_file(r, n, s, a)
    \/ \E n \in Names, s \in SizeArgs, t \in ActualArgs, i \in IndexArgs,
          a \in FileAttrSets : register_alias(n, s, t, i, a)
    \/ \E n \in Names, v \in ValueArgs : register_default(n, v)

SpecDecl == Init /\ [][NextDecl]_vars

\* the constant rules over two names, with the registers sized by them
ConstNames == {"A", "B"}
ConstAttrArgs == {{}, {"is_reg_width"}}

NextConst ==
    \/ \E n \in ConstNames, v \in Lits : constant_decl(n, v)
    \/ \E n \in ConstNames, v \in Lits, a \in ConstAttrArgs : constant_def(n, v, a)
    \/ \E n \in ConstNames : register(n, Nm(n), {})

SpecConst == Init /\ [][NextConst]_vars

\* the instruction rules: encodings, instructions, instruction sets, cores
BitTokens == {<<"b", "1", "0">>}
FieldNames == {"rd"}
BitRanges == {RangeSpec(IntVal(1), IntVal(0), NoneVal)}
DataTypeArgs == {NoType, "S"}
InstrNames == {"ADD", "SUB"}
SetNames == {"RV32I", "RV32M"}
InstrSetNames == {"RV32I"}

NextInstr ==
    \/ \E num \in BitTokens : BVAL(num)
    \/ \E n \in FieldNames, r \in BitRanges : bit_field(n, r, NoType)
    \/ \E n \in InstrNames :
          instruction(n, {}, reduced.enc, "disass", "operation")
    \/ \E n \in InstrSetNames :
          instruction_set(n, NoType, reduced.constants, reduced.address_spaces,
                          reduced.registers, reduced.functions,
                          reduced.instructions)
    \/ core_def("Core", NoType)

SpecInstr == Init /\ [][NextInstr]_vars

\* the function rules, with the constants their sizes may name
FnNames == {"f", "g"}
ReturnLenArgs == {None, Lit(0), Lit(32)} \cup {Nm(n) : n \in CNames}

NextFn ==
    \/ \E n \in CNames : constant_decl(n, 32)
    \/ \E n \in FieldNames, s \in SizeArgs : fn_arg_def(n, NoType, s)
    \/ \E r \in ReturnLenArgs, n \in FnNames, d \in DataTypeArgs :
          function_def(r, n, reduced.params, d, {}, "operation")
    \/ \E n \in SetNames :
          instruction_set(n, NoType, reduced.constants, reduced.address_spaces,
                          reduced.registers, reduced.functions,
                          reduced.instructions)

SpecFn == Init /\ [][NextFn]_vars

\* the whole pass: every rule, in any order
NumObjects == Len(constant_objs) + NumDecls + Len(instruction_objs)
              + Len(function_objs) + Len(__read_types)
              + Len(reduced.enc) + Len(reduced.params)
Room == NumObjects < MaxObjects

Next ==
    \/ Room /\ constant_decl("A", 32)
    \/ (Room \/ Has(__constants, "A")) /\ constant_def("A", 16, {"is_reg_width"})
    \/ Room /\ address_space("A", Lit(8), Lit(32), None, {"is_main_mem"})
    \/ Room /\ register("A", Lit(32), {"is_pc"})
    \/ Room /\ \E r \in RangeArgs : register_file(r, "A", Lit(32), {})
    \/ Room /\ \E i \in IndexArgs : register_alias("B", Nm("A"), "A", i, {})
    \/ \E n \in Names : register_default(n, Lit(32))
    \/ Room /\ BVAL(<<"b", "1", "0">>)
    \/ Room /\ bit_field("rd", RangeSpec(IntVal(1), IntVal(0), NoneVal), NoType)
    \/ Room /\ instruction("ADD", {}, reduced.enc, "disass", "operation")
    \/ Room /\ fn_arg_def("rd", NoType, Lit(32))
    \/ Room /\ \E r \in ReturnLenArgs :
          function_def(r, "f", reduced.params, NoType, {}, "operation")
    \/ \E n \in SetNames :
          /\ Room \/ n \in Range(__read_types)
          /\ instruction_set(n, NoType, reduced.constants, reduced.address_spaces,
                             reduced.registers, reduced.functions,
                             reduced.instructions)
    \/ core_def("Core", NoType)

Spec == Init /\ [][Next]_vars

(* ------------------------------- claims -------------------------------- *)

\* one declaration rule `op` with its own table before (t) and after (u) a step
DuplicateRule(op, t, u) ==
    /\ DOMAIN t \subseteq DOMAIN u
    /\ last'.op = op =>
         /\ last'.args.name \in DOMAIN t <=> last'.res = "ValueError"
         /\ last'.res = "ok" => last'.args.name \in DOMAIN u

\* C1: a name stays in its table once declared; a declaration of a name that is
\* already in the table of its own kind fails with the duplicate error
\* (ValueError) whatever its other arguments are; and the duplicate error is
\* raised only for a name in the table of the same kind, so a name held by
\* another kind alone is not rejected by this check.
C1_DuplicateRejected ==
    [][/\ DuplicateRule("constant_decl", __constants, __constants')
       /\ DuplicateRule("address_space", __address_spaces, __address_spaces')
       /\ DuplicateRule("register", __registers, __registers')
       /\ DuplicateRule("register_file", __register_file, __register_file')
       /\ DuplicateRule("register_alias", __register_alias, __register_alias')
      ]_vars

\* C1 witness: a register declaration was rejected as a duplicate although its
\* size differs from the declared register's, after a register file of the same
\* name had been accepted.
C1_Witness ==
    /\ last.op = "register"
    /\ last.res = "ValueError"
    /\ last.args.name \in DOMAIN __register_file
    /\ Resolvable(last.args.size)
    /\ __registers[last.args.name].size # get_constant_or_val(last.args.size)

\* the Memory view found under an entity's name: aliases are looked up in
\* the memory-alias table, the other kinds in the memory table
HasView(kind, n) ==
    IF kind = "register_alias" THEN Has(__memory_aliases, n) ELSE Has(__memories, n)
View(kind, n) ==
    IF kind = "register_alias" THEN memory_objs[__memory_aliases[n]]
    ELSE memory_objs[__memories[n]]

ViewMatches(kind, t) ==
    \A n \in DOMAIN t :
        /\ HasView(kind, n)
        /\ View(kind, n).size = t[n].size
        /\ View(kind, n).attributes = t[n].attributes

\* C2: for every declared register, register file, address space and alias,
\* the Memory view found under its name has the entity's size and attributes.
C2_MemoryViewMatches ==
    /\ ViewMatches("register", __registers)
    /\ ViewMatches("register_file", __register_file)
    /\ ViewMatches("address_space", __address_spaces)
    /\ ViewMatches("register_alias", __register_alias)

\* number of occurrences of x in a sequence
Occurrences(seq, x) == Cardinality({k \in DOMAIN seq : seq[k] = x})

\* C3: the Memory view of every declared alias occurs exactly once in the child
\* list of the Memory view built together with its actual register, and in no
\* other child list.
C3_ChildOfActual ==
    \A a \in DOMAIN __register_alias :
        LET view == Node("register_alias", a)
            actual == __register_alias[a].actual
            parent == Node(actual.k, actual.n)
        IN  \A m \in DOMAIN memory_objs :
                Occurrences(memory_objs[m].children, view)
                    = IF m = parent THEN 1 ELSE 0

\* C4: an `instruction` call never fails; it binds the (code, mask) key of the
\* new instruction to the new instruction and leaves every other key alone;
\* when the key was already in the table exactly one diagnostic is printed and
\* the number of keys stays the same, otherwise nothing is printed and the
\* table grows by exactly one key.
C4_EncodingCollision ==
    [][last'.op = "instruction" =>
         LET id == last'.ret
             key == <<instruction_objs'[id].code, instruction_objs'[id].mask>>
         IN  /\ last'.res = "ok"
             /\ id \notin DOMAIN instruction_objs
             /\ instruction_objs'[id].name = last'.args.name
             /\ instruction_objs'[id].encoding = last'.args.encoding
             /\ key \in DOMAIN __instructions'
             /\ __instructions'[key] = id
             /\ \A k \in DOMAIN __instructions \ {key} :
                    k \in DOMAIN __instructions' /\ __instructions'[k] = __instructions[k]
             /\ IF key \in DOMAIN __instructions
                THEN /\ Len(last'.out) = 1
                     /\ DOMAIN __instructions' = DOMAIN __instructions
                ELSE /\ last'.out = <<>>
                     /\ Cardinality(DOMAIN __instructions')
                          = Cardinality(DOMAIN __instructions) + 1
      ]_vars

\* C4 witness: an instruction has just overwritten a differently named one
\* with the same (code, mask); the table holds that single key.
C4_Witness ==
    /\ last.op = "instruction"
    /\ Len(last.out) = 1
    /\ last.out[1][2] # last.args.name
    /\ Len(instruction_objs) = 2
    /\ Cardinality(DOMAIN __instructions) = 1

UnresolvedErrors == {"KeyError", "AssertionError"}

\* C5: register_default for a name that is neither in the alias table nor in
\* the register table fails with an unresolved-reference error and assigns no
\* default, whatever other tables hold the name.
C5_DefaultNeedsTarget ==
    [][(/\ last'.op = "register_default"
        /\ last'.args.name \notin DOMAIN __register_alias
        /\ last'.args.name \notin DOMAIN __registers)
       => /\ last'.res \in UnresolvedErrors
          /\ UNCHANGED <<__registers, __register_alias>>
      ]_vars

\* C5 witness: a register_default was rejected for a name that exists as a
\* register file, an address space and a constant only.
C5_Witness ==
    /\ last.op = "register_default"
    /\ last.res = "AssertionError"
    /\ last.args.name \in DOMAIN __register_file
    /\ last.args.name \in DOMAIN __address_spaces
    /\ last.args.name \in DOMAIN __constants

\* what a size, length or value argument must be stored as
Expected(a) == IF a.t = "int" THEN IntVal(a.v) ELSE ConstRef(__constants[a.n])
Unresolved(a) == a.t = "name" /\ a.n \notin DOMAIN __constants
Succeeded == last'.res \in {"ok", "Discard"}

\* one argument `a` of the call just made, stored as `stored` if it succeeded
ArgRule(a, stored) ==
    /\ Unresolved(a) => last'.res \in UnresolvedErrors
    /\ (Succeeded /\ ~Unresolved(a)) => stored = Expected(a)

\* the register or alias a register_default call assigns to
DefaultTarget(n) ==
    IF n \in DOMAIN __register_alias' THEN __register_alias'[n] ELSE __registers'[n]

\* C6: in address_space, register, register_file, register_alias, fn_arg_def,
\* function_def and register_default, a literal size, length, return length or
\* default value is stored as it is, a name is stored as the constant found
\* under that name at the moment of the call, and the call fails with an
\* unresolved-reference error when there is no such constant.
C6_SizesResolved ==
    [][LET a == last'.args IN
       /\ last'.op = "address_space" =>
            /\ ArgRule(a.size, __address_spaces'[a.name].size)
            /\ ArgRule(a.size, memory_objs'[__memories'[a.name]].size)
            /\ ArgRule(a.length_base, __address_spaces'[a.name].length_base)
            /\ ArgRule(a.length_base, memory_objs'[__memories'[a.name]].range.upper)
            /\ a.length_power.t # "none" =>
                 /\ ArgRule(a.length_power, __address_spaces'[a.name].length_power)
                 /\ ArgRule(a.length_power,
                            memory_objs'[__memories'[a.name]].range.power)
       /\ last'.op = "register" => ArgRule(a.size, __registers'[a.name].size)
       /\ last'.op = "register_file" => ArgRule(a.size, __register_file'[a.name].size)
       /\ last'.op = "register_alias" => ArgRule(a.size, __register_alias'[a.name].size)
       /\ last'.op = "fn_arg_def" => ArgRule(a.size, last'.ret.size)
       /\ (last'.op = "function_def" /\ a.return_len.t # "none") =>
            ArgRule(a.return_len, function_objs'[last'.ret].size)
       /\ last'.op = "register_default" => ArgRule(a.value, DefaultTarget(a.name).initval)
      ]_vars

\* the first hit of the probe order register files, registers, aliases
FirstHit(t) ==
    IF t \in DOMAIN __register_file THEN EntityRef("register_file", t)
    ELSE IF t \in DOMAIN __registers THEN EntityRef("register", t)
    ELSE EntityRef("register_alias", t)
InNone(t) ==
    /\ t \notin DOMAIN __register_file
    /\ t \notin DOMAIN __registers
    /\ t \notin DOMAIN __register_alias

\* C7 as stated: a register_alias call whose actual name is in none of the three
\* tables fails with an unresolved-reference error, and a successful call
\* binds the alias to the first hit of the probe order.
C7_AsStated ==
    [][last'.op = "register_alias" =>
         /\ InNone(last'.args.actual) => last'.res \in UnresolvedErrors
         /\ last'.res = "ok" =>
              __register_alias'[last'.args.name].actual = FirstHit(last'.args.actual)
      ]_vars

\* C7 amended: a register_alias call whose own name is not yet an alias fails
\* with an unresolved-reference error when the actual name is in none of the
\* three tables (a duplicate alias name is rejected first, with the duplicate
\* error); every call whose actual name is in none of them fails; a successful
\* call binds the alias to the first hit of the probe order.
C7_AliasResolution ==
    [][last'.op = "register_alias" =>
         /\ InNone(last'.args.actual) =>
              /\ last'.res # "ok"
              /\ last'.args.name \notin DOMAIN __register_alias
                   => last'.res \in UnresolvedErrors
         /\ last'.res = "ok" =>
              /\ ~InNone(last'.args.actual)
              /\ __register_alias'[last'.args.name].actual
                   = FirstHit(last'.args.actual)
      ]_vars

\* C7 witness: an alias was bound to a register file although a register of
\* the same name is declared as well.
C7_Witness ==
    /\ last.op = "register_alias"
    /\ last.res = "ok"
    /\ last.args.actual \in DOMAIN __register_file
    /\ last.args.actual \in DOMAIN __registers
    /\ __register_alias[last.args.name].actual
         = EntityRef("register_file", last.args.actual)

\* C8: the return type of a function is the explicit data type if one is
\* given, "none" if neither a data type nor a return length is given, and
\* unsigned if no data type but a return length (any literal or a name) is given.
C8_ReturnType ==
    [][(last'.op = "function_def" /\ last'.res = "ok") =>
         function_objs'[last'.ret].data_type
           = IF last'.args.data_type # NoType THEN last'.args.data_type
             ELSE IF last'.args.return_len.t = "none" THEN "NONE"
             ELSE "U"
      ]_vars

\* every binding and every Constant object other than the one named n is kept
OtherConstantsKept(n) ==
    \A m \in DOMAIN __constants \ {n} :
        /\ m \in DOMAIN __constants'
        /\ __constants'[m] = __constants[m]
        /\ constant_objs'[__constants[m]] = constant_objs[__constants[m]]

\* exactly one new Constant object, bound to n, with the given value
InsertedConstant(n, value, attributes) ==
    /\ DOMAIN __constants' = DOMAIN __constants \cup {n}
    /\ Len(constant_objs') = Len(constant_objs) + 1
    /\ __constants'[n] = Len(constant_objs) + 1
    /\ constant_objs'[__constants'[n]]
         = [name |-> n, value |-> value, attributes |-> attributes]

\* C9: for a name already in the constant table constant_decl fails and
\* constant_def succeeds, keeps the set of names and the object bound to the name,
\* and sets that object's value and attributes; for a new name both rules
\* insert exactly one new constant.
C9_ConstantRedefinition ==
    [][LET a == last'.args IN
       /\ last'.op = "constant_decl" =>
            /\ OtherConstantsKept(a.name)
            /\ IF a.name \in DOMAIN __constants
               THEN /\ last'.res = "ValueError"
                    /\ UNCHANGED <<__constants, constant_objs>>
               ELSE /\ last'.res = "ok"
                    /\ InsertedConstant(a.name, a.value, {})
       /\ last'.op = "constant_def" =>
            /\ last'.res = "ok"
            /\ OtherConstantsKept(a.name)
            /\ IF a.name \in DOMAIN __constants
               THEN /\ UNCHANGED __constants
                    /\ Len(constant_objs') = Len(constant_objs)
                    /\ constant_objs'[__constants[a.name]]
                         = [name |-> a.name, value |-> a.value,
                            attributes |-> a.attributes]
               ELSE InsertedConstant(a.name, a.value, a.attributes)
      ]_vars

\* C9 witness: constant A was built first, B second, and the call just made is
\* a constant_def of A that gave it a value and attributes: a redefinition.
C9_Witness ==
    /\ last.op = "constant_def"
    /\ last.args.name = "A"
    /\ DOMAIN __constants = {"A", "B"}
    /\ __constants["A"] = 1
    /\ __constants["B"] = 2
    /\ Len(constant_objs) = 2
    /\ constant_objs[1].value = 16
    /\ constant_objs[1].attributes = {"is_reg_width"}

NoDuplicates(seq) == \A j, k \in DOMAIN seq : seq[j] = seq[k] => j = k

\* C10: the CoreDef returned by core_def holds, for each of the nine tables,
\* the contents of that builder table, and the list of instruction-set names
\* as it stands; core_def changes no table. That list holds every set reduced
\* so far exactly once, in the order of first reduction: instruction_set
\* appends a new name and leaves a known one where it is, and no other rule
\* touches the list.
C10_CoreDefPackages ==
    [][/\ last'.op = "core_def" =>
            LET c == last'.ret IN
            /\ last'.res = "ok"
            /\ Table(c.constants) = __constants
            /\ Table(c.address_spaces) = __address_spaces
            /\ Table(c.register_files) = __register_file
            /\ Table(c.registers) = __registers
            /\ Table(c.register_aliases) = __register_alias
            /\ Table(c.memories) = __memories
            /\ Table(c.memory_aliases) = __memory_aliases
            /\ Table(c.functions) = __functions
            /\ Table(c.instructions) = __instructions
            /\ c.contributing_types = __read_types
            /\ UNCHANGED <<constTables, declTables, instrTables, fnTables,
                           setTables>>
       /\ (last'.op = "instruction_set" /\ Succeeded) =>
            __read_types' = IF last'.args.name \in Range(__read_types)
                            THEN __read_types
                            ELSE Append(__read_types, last'.args.name)
       /\ last'.op # "instruction_set" => UNCHANGED __read_types
       /\ NoDuplicates(__read_types')
       /\ Range(__read_types') = DOMAIN __instruction_sets'
      ]_vars

\* C10 witness: core_def has just returned a CoreDef naming two instruction
\* sets while the register table and the instruction table are not empty.
C10_Witness ==
    /\ last.op = "core_def"
    /\ last.ret.contributing_types = <<"RV32M", "RV32I">>
    /\ DOMAIN __registers # {}
    /\ Table(last.ret.registers) = __registers

\* table t with the default value of entry n set to v and nothing else changed
WithInitval(t, n, v) ==
    [x \in DOMAIN t |-> IF x = n THEN [t[x] EXCEPT !.initval = v] ELSE t[x]]

\* C11: a successful register_default for name N sets the default value of
\* the alias N if there is one, otherwise of the plain register N, and
\* changes nothing else: a same-named plain register keeps its default, every
\* other entity, every table, the memory views and the instruction index are
\* unchanged, and the rule hands no value to the enclosing rule.
C11_DefaultFrame ==
    [][(last'.op = "register_default" /\ Succeeded) =>
         LET n == last'.args.name
             v == Expected(last'.args.value)
         IN
         /\ IF n \in DOMAIN __register_alias
            THEN /\ __register_alias' = WithInitval(__register_alias, n, v)
                 /\ UNCHANGED __registers
            ELSE /\ n \in DOMAIN __registers
                 /\ __registers' = WithInitval(__registers, n, v)
                 /\ UNCHANGED __register_alias
         /\ UNCHANGED <<constTables, instrTables, fnTables, setTables,
                        __address_spaces, __register_file, __memories,
                        __memory_aliases, memory_objs, reduced>>
         /\ last'.res = "Discard"
         /\ last'.ret = NoneVal
      ]_vars

\* C11 witness: a default was assigned to name A, which is both an alias and
\* a plain register: the alias carries it, the register has none.
C11_Witness ==
    /\ last.op = "register_default"
    /\ last.res = "Discard"
    /\ last.args.name \in DOMAIN __register_alias
    /\ last.args.name \in DOMAIN __registers
    /\ __register_alias[last.args.name].initval = IntVal(16)
    /\ __registers[last.args.name].initval = NoneVal

\* the bit fields named n among the elements of an encoding, in order
RECURSIVE FieldsOf(_, _)
FieldsOf(enc, n) ==
    IF enc = <<>> THEN <<>>
    ELSE IF Head(enc).t = "field" /\ Head(enc).name = n
         THEN <<Head(enc)>> \o FieldsOf(Tail(enc), n)
         ELSE FieldsOf(Tail(enc), n)

\* the encoding elements reduced after the k-th and before the (k+1)-th
\* instruction reduction (k counted from 0)
ReducedInSlot(k) ==
    IF k < Len(instruction_objs) THEN instruction_objs[k + 1].encoding
    ELSE reduced.enc

\* C12: the instruction index is the number of instruction reductions made
\* so far: it starts at 0, every instruction reduction adds one (collision or
\* not) and nothing else changes it; the bit-field group at index k holds
\* exactly the bit fields reduced between the k-th and the (k+1)-th
\* instruction reduction, name by name and in order, and there is no group
\* beyond the current index.
C12_FieldGroups ==
    /\ [](/\ __current_instr_idx = Len(instruction_objs)
          /\ DOMAIN __fields \subseteq 0..__current_instr_idx
          /\ \A k \in 0..__current_instr_idx : \A n \in FieldNames :
                FieldList(k, n) = FieldsOf(ReducedInSlot(k), n))
    /\ [][__current_instr_idx' =
            IF last'.op = "instruction" THEN __current_instr_idx + 1
            ELSE __current_instr_idx]_vars

\* C12 witness: two instructions were reduced, the second colliding with the
\* first, each with one bit field of the same name; the field of the first
\* is in group 0 and that of the second in group 1.
C12_Witness ==
    /\ last.op = "instruction"
    /\ Len(last.out) = 1
    /\ __current_instr_idx = 2
    /\ \A k \in {0, 1} : Len(FieldList(k, "rd")) = 1

\* the objects with ids in `passed` are tagged with set name s and are
\* otherwise as before; every other object of the heap is as before
Tagged(objs, objs2, passed, s) ==
    /\ DOMAIN objs2 = DOMAIN objs
    /\ \A k \in DOMAIN objs :
          objs2[k] = IF k \in passed THEN [objs[k] EXCEPT !.ext_name = s]
                     ELSE objs[k]

\* no object of the heap changes its tag; a new object has none
TagsKept(objs, objs2) ==
    \A k \in DOMAIN objs2 :
        objs2[k].ext_name = IF k \in DOMAIN objs THEN objs[k].ext_name ELSE NoType

\* C13: an instruction_set reduction for set name S tags every instruction
\* and function passed to it (none of them tagged before) with S, maps S to
\* the newly built set, records S as contributing and hands no value to the
\* enclosing rule; no other rule changes a tag. So in every state, and at
\* core_def in particular, an instruction that the set recorded under S
\* names carries the tag S.
C13_OwningSet ==
    /\ [][IF last'.op = "instruction_set"
          THEN LET a == last'.args IN
               /\ \A k \in Range(a.instructions) :
                     instruction_objs[k].ext_name = NoType
               /\ \A k \in Range(a.functions) : function_objs[k].ext_name = NoType
               /\ Tagged(instruction_objs, instruction_objs',
                         Range(a.instructions), a.name)
               /\ Tagged(function_objs, function_objs', Range(a.functions), a.name)
               /\ a.name \in DOMAIN __instruction_sets'
               /\ __instruction_sets'[a.name].name = a.name
               /\ __instruction_sets'[a.name].instructions
                    = IF a.instructions = <<>> THEN NoneVal
                      ELSE ByName(a.instructions, instruction_objs)
               /\ a.name \in Range(__read_types')
               /\ last'.res = "Discard"
               /\ last'.ret = NoneVal
               /\ reduced' = NothingReduced
          ELSE /\ TagsKept(instruction_objs, instruction_objs')
               /\ TagsKept(function_objs, function_objs')
         ]_vars
    /\ [](\A s \in DOMAIN __instruction_sets :
             __instruction_sets[s].instructions # NoneVal =>
               \A n \in DOMAIN __instruction_sets[s].instructions :
                  instruction_objs[__instruction_sets[s].instructions[n]].ext_name
                    = s)

\* C13 witness: core_def is reduced while the instruction table holds an
\* instruction tagged with the set it was declared in, and a function was
\* tagged with the same set.
C13_Witness ==
    /\ last.op = "core_def"
    /\ \E key \in DOMAIN __instructions :
          /\ instruction_objs[__instructions[key]].ext_name = "RV32I"
          /\ __instruction_sets["RV32I"].instructions # NoneVal
    /\ \E f \in DOMAIN __functions : function_objs[__functions[f]].ext_name = "RV32I"

\* every entry of table t is in t2 with the same fields, but for the default
\* value, which only register_default may have changed
EntriesKept(t, t2) ==
    \A n \in DOMAIN t :
        /\ n \in DOMAIN t2
        /\ [t2[n] EXCEPT !.initval = t[n].initval] = t[n]
        /\ t2[n].initval # t[n].initval => last'.op = "register_default"

\* every object of heap objs is in objs2 with the same fields, but for the
\* owning-set name, which only instruction_set may have changed
ObjectsKept(objs, objs2) ==
    \A k \in DOMAIN objs :
        /\ k \in DOMAIN objs2
        /\ [objs2[k] EXCEPT !.ext_name = objs[k].ext_name] = objs[k]
        /\ objs2[k].ext_name # objs[k].ext_name => last'.op = "instruction_set"

\* address spaces, register files, registers, aliases, instructions and
\* functions keep their fields, with the two documented exceptions
OthersImmutable ==
    /\ \A n \in DOMAIN __address_spaces :
          n \in DOMAIN __address_spaces' /\ __address_spaces'[n] = __address_spaces[n]
    /\ \A n \in DOMAIN __register_file :
          n \in DOMAIN __register_file' /\ __register_file'[n] = __register_file[n]
    /\ EntriesKept(__registers, __registers')
    /\ EntriesKept(__register_alias, __register_alias')
    /\ ObjectsKept(instruction_objs, instruction_objs')
    /\ ObjectsKept(function_objs, function_objs')

\* C14 as stated: no reduction changes a field of an existing entity other
\* than a Memory node, except instruction_set setting an owning-set name and
\* register_default setting a default value; so a Constant keeps its value and
\* attributes.
C14_AsStated ==
    [][/\ OthersImmutable
       /\ \A k \in DOMAIN constant_objs :
             k \in DOMAIN constant_objs' /\ constant_objs'[k] = constant_objs[k]
      ]_vars

\* C14 amended: as stated, with a third exception: constant_def of a name
\* already in the constant table sets the value and the attributes of that
\* Constant. No other Constant and no other field changes, and an entity
\* whose size was given by name keeps its reference to the same Constant (so
\* it sees the new value).
C14_Immutable ==
    [][/\ OthersImmutable
       /\ \A k \in DOMAIN constant_objs :
             /\ k \in DOMAIN constant_objs'
             /\ constant_objs'[k].name = constant_objs[k].name
             /\ constant_objs'[k] # constant_objs[k] =>
                  /\ last'.op = "constant_def"
                  /\ last'.args.name \in DOMAIN __constants
                  /\ __constants[last'.args.name] = k
                  /\ constant_objs'[k].value = last'.args.value
                  /\ constant_objs'[k].attributes = last'.args.attributes
      ]_vars

\* C14 witness: constant_def has just been reduced for constant A while alias
\* B, declared before with its size given as A, refers to that Constant.
C14_Witness ==
    /\ last.op = "constant_def"
    /\ last.args.name = "A"
    /\ "B" \in DOMAIN __register_alias
    /\ __register_alias["B"].size = ConstRef(__constants["A"])
    /\ constant_objs[__constants["A"]].value = last.args.value

\* every key of table t is still bound to the same object in t2
BindingsKept(t, t2) == \A k \in DOMAIN t : k \in DOMAIN t2 /\ t2[k] = t[k]

\* C15: no entity is ever deleted: a constant, address space, register,
\* register file, register alias, memory view, memory-alias view, function
\* or instruction that is in its builder table before a reduction is in that
\* table after it, up to and including core_def.
C15_NeverDeleted ==
    [][/\ BindingsKept(__constants, __constants')
       /\ DOMAIN __address_spaces \subseteq DOMAIN __address_spaces'
       /\ DOMAIN __registers \subseteq DOMAIN __registers'
       /\ DOMAIN __register_file \subseteq DOMAIN __register_file'
       /\ DOMAIN __register_alias \subseteq DOMAIN __register_alias'
       /\ BindingsKept(__memories, __memories')
       /\ BindingsKept(__memory_aliases, __memory_aliases')
       /\ BindingsKept(__functions, __functions')
       /\ BindingsKept(__instructions, __instructions')
      ]_vars

\* the instruction with id k belongs to an instruction set already closed
InClosedSet(k) == instruction_objs[k].ext_name # NoType

\* C16: the table that instruction checks for collisions is scoped to the
\* set being built: an instruction of a set already closed is not replaced
\* in the table by an instruction reduced later, for another set, with the
\* same (code, mask), and no diagnostic is emitted for it.
C16_SetScopedTable ==
    [][last'.op = "instruction" =>
         \A key \in DOMAIN __instructions :
            InClosedSet(__instructions[key]) =>
               /\ __instructions'[key] = __instructions[key]
               /\ key = InstrId(instruction_objs'[last'.ret]) => last'.out = <<>>
      ]_vars

\* C17: function names are unique: a function_def whose name is already in
\* the function table fails with the duplicate-declaration error and the
\* first function stays in the table.
C17_FunctionUnique ==
    [][(last'.op = "function_def" /\ last'.args.name \in DOMAIN __functions) =>
         /\ last'.res = "ValueError"
         /\ UNCHANGED <<__functions, function_objs>>
      ]_vars

\* {**register_file, **registers, **register_alias}: the union of the three
\* tables, an alias shadowing a register and a register shadowing a file
UnifiedRegisters ==
    Merge(Merge(__register_file, __registers), __register_alias)

\* the fields of a CoreDef that hold a table of named entities
EntityFields ==
    {"address_spaces", "register_files", "registers", "register_aliases",
     "memories", "memory_aliases"}

\* C18: the CoreDef returned by core_def carries the unified register view:
\* one table with exactly the names of the register-file, register and alias
\* tables, where for a name in several of them the later-merged table wins
\* (register files, then registers, then aliases).
C18_UnifiedView ==
    [][last'.op = "core_def" =>
         \E f \in EntityFields : Table(last'.ret[f]) = UnifiedRegisters
      ]_vars

\* C19: a declaration that fails (duplicate name, unresolved constant name,
\* unresolved alias target, unresolved register_default target) leaves the
\* builder as it was: no table gains or changes an entry, no Memory node
\* gains a child, no default value changes and the instruction index stays.
C19_FailureChangesNothing ==
    [][~Succeeded =>
         UNCHANGED <<constTables, declTables, instrTables, fnTables, setTables>>
      ]_vars

\* C19 witness: a register_alias call for a new alias name found its actual
\* register and then failed on its size, an undeclared constant name, while
\* another alias and its Memory view were already in place.
C19_Witness ==
    /\ last.op = "register_alias"
    /\ last.res = "KeyError"
    /\ last.args.name \notin DOMAIN __register_alias
    /\ ActualReg(last.args.actual).k # "none"
    /\ \E b \in DOMAIN __register_alias :
          Len(memory_objs[ParentMem(__register_alias[b].actual.n)].children) > 0

\* the Memory nodes in the child list of node m
Children(m) == Range(memory_objs[m].children)

\* the nodes reachable from the nodes of S along at most k child links
RECURSIVE Descendants(_, _)
Descendants(S, k) ==
    IF k = 0 THEN S
    ELSE Descendants(S \cup UNION {Children(m) : m \in S \cap DOMAIN memory_objs},
                     k - 1)

\* the number of places, over all child lists, where node c occurs
RECURSIVE Parents(_, _)
Parents(c, nodes) ==
    IF nodes = {} THEN 0
    ELSE LET m == CHOOSE x \in nodes : TRUE
         IN  Occurrences(memory_objs[m].children, c) + Parents(c, nodes \ {m})

\* C20: the memory-view tables are in lock-step with the entity tables: the
\* memory-alias table has the keys of the register-alias table, the memory
\* table those of the address-space, register and register-file tables
\* together; only nodes built by register_alias are children, each of them
\* of exactly one parent, and no node is its own descendant.
C20_MemoryForest ==
    /\ DOMAIN __memory_aliases = DOMAIN __register_alias
    /\ DOMAIN __memories = DOMAIN __address_spaces \cup DOMAIN __registers
                             \cup DOMAIN __register_file
    /\ \A m \in DOMAIN memory_objs :
          /\ Children(m) \subseteq DOMAIN memory_objs
          /\ \A c \in Children(m) : c.k = "register_alias"
          /\ m.k = "register_alias" => Parents(m, DOMAIN memory_objs) = 1
          /\ m \notin Descendants(Children(m), Cardinality(DOMAIN memory_objs))

\* C20 witness: a chain of views: register A's view has the view of alias B
\* as its child, which has the view of alias A as its child.
C20_Witness ==
    /\ Node("register", "A") \in DOMAIN memory_objs
    /\ Node("register_alias", "B") \in Children(Node("register", "A"))
    /\ Node("register_alias", "A") \in Children(Node("register_alias", "B"))

====
